---- MODULE Spec2Model ----
(***************************************************************************)
(* A model of solve.py, the "Drive Ya Nuts" solver: the Nut piece type,    *)
(* get_open_edges, try_center, trace_path and the two drivers              *)
(* print_full_solutions and print_partial_solutions.                       *)
(*                                                                         *)
(* Python indices are kept as they are in the source (0-based, negative    *)
(* indices allowed); TupleAt converts to the 1-based TLA+ sequences.       *)
(* A Python call that may raise is modelled by a record whose field exc    *)
(* names the exception ("none" when the call returns).                     *)
(***************************************************************************)
EXTENDS Integers, Sequences, FiniteSets, TLC

VARIABLES
    nuts_list,                \* the dataset handed to the driver
    partial,                  \* main's flag: partial (try_center) or full search
    pc,                       \* where the program is
    cn_pos,                   \* position of the loop variable cn in nuts_list (0: before the loop)
    sn_rest,                  \* what is left of `for sn in sorted(set(nuts_list) - {cn})`
    sn,                       \* the driver's loop variable sn
    frame,                    \* the arguments of the running trace_path call
    ret,                      \* what trace_path returned: (found, sequence)
    solutions,                \* print_full_solutions' list of solutions
    possible_starting_pairs,  \* print_partial_solutions' list
    tc_ret,                   \* what the latest try_center call returned
    exc,                      \* the exception that ended the run ("none": none)
    call,                     \* SpecFn: the function called and its arguments
    result                    \* SpecFn: what the call returned or raised

vars == <<nuts_list, partial, pc, cn_pos, sn_rest, sn, frame, ret, solutions,
          possible_starting_pairs, tc_ret, exc, call, result>>

\* what a call made on its own leaves alone
fn_unchanged == <<nuts_list, partial, cn_pos, sn_rest, sn, frame, ret, solutions,
                  possible_starting_pairs, tc_ret, exc>>

----------------------------------------------------------------------------
(* Bounds *)

\* SpecFn calls the indexing functions with every index in -MaxIdx..MaxIdx.
MaxIdx == 8

\* SpecFn constructs a Nut from every sequence of 1..MaxLen numbers of 1..MaxVal.
MaxLen == 3
MaxVal == 3

----------------------------------------------------------------------------
(* Python values *)

\* Every label is one lower-case letter; Python compares such strings by
\* their place in the alphabet.
Alphabet == <<"a", "b", "c", "d", "e", "f", "g", "h", "i", "j", "k", "l", "m",
              "n", "o", "p", "q", "r", "s", "t", "u", "v", "w", "x", "y", "z">>

NameRank(name) == CHOOSE i \in 1..Len(Alphabet) : Alphabet[i] = name

SetOf(seq) == {seq[i] : i \in 1..Len(seq)}

\* tuple[i] of Python, for an index within -len..len-1.
TupleAt(t, i) == IF i >= 0 THEN t[i + 1] ELSE t[Len(t) + i + 1]

\* tuple.index(value): the first 0-based position of value, ValueError when absent.
TupleIndexOf(t, value) ==
    IF \E i \in 1..Len(t) : t[i] = value
    THEN [exc |-> "none",
          val |-> (CHOOSE i \in 1..Len(t) :
                      t[i] = value /\ \A j \in 1..(i - 1) : t[j] # value) - 1]
    ELSE [exc |-> "ValueError", val |-> -1]

----------------------------------------------------------------------------
(* class Nut *)

\* NutEdges with the wrapping pair built the wrong way round.
NutEdges_wrap_reversed(numbers) ==
    [i \in 1..(Len(numbers) - 1) |-> <<numbers[i], numbers[i + 1]>>]
        \o <<<<TupleAt(numbers, 0), TupleAt(numbers, -1)>>>>

\* The edges built by Nut.__init__: the consecutive pairs, then the pair
\* that wraps from the last number to the first.
NutEdges(numbers) ==
    [i \in 1..(Len(numbers) - 1) |-> <<numbers[i], numbers[i + 1]>>]
        \o <<<<TupleAt(numbers, -1), TupleAt(numbers, 0)>>>>

\* Nut.__init__ (numbers is not empty: numbers[-1] raises IndexError otherwise).
Nut(numbers, name) ==
    [numbers |-> numbers,
     name |-> name,
     edges_list |-> NutEdges(numbers),
     edges_set |-> SetOf(NutEdges(numbers))]

\* Nut.__getitem__: only an index >= len is reduced modulo len; a negative
\* index goes to the tuple as it is, which raises IndexError below -len.
Nut_getitem(nut, item) ==
    LET len == Len(nut.numbers)
        it == IF item >= len THEN item % len ELSE item
    IN IF it >= -len
       THEN [exc |-> "none", val |-> TupleAt(nut.numbers, it)]
       ELSE [exc |-> "IndexError", val |-> 0]

\* Nut.__lt__
Nut_lt(self, other) == NameRank(self.name) < NameRank(other.name)

\* sorted(<a set of nuts>): ascending by Nut.__lt__. The labels of a dataset
\* are distinct, so the result does not depend on the set's iteration order.
RECURSIVE sorted(_)
sorted(S) ==
    IF S = {} THEN <<>>
    ELSE LET least == CHOOSE x \in S : \A y \in S \ {x} : Nut_lt(x, y)
         IN <<least>> \o sorted(S \ {least})

----------------------------------------------------------------------------
(* get_open_edges *)

\* get_open_edges with the two numbers of left_edge exchanged.
get_open_edges_left_reversed(nut_1, index_1, nut_2, index_2) ==
    LET val_1 == Nut_getitem(nut_1, index_1)
        val_2 == Nut_getitem(nut_2, index_2)
        l1 == Nut_getitem(nut_2, index_2 + 1)
        l2 == Nut_getitem(nut_1, index_1 - 1)
        r1 == Nut_getitem(nut_1, index_1 + 1)
        r2 == Nut_getitem(nut_2, index_2 - 1)
        raised == [exc |-> "IndexError", left_edge |-> <<>>, right_edge |-> <<>>]
    IN IF val_1.exc # "none" \/ val_2.exc # "none" THEN raised
       ELSE IF val_1.val # val_2.val
       THEN [exc |-> "ValueError", left_edge |-> <<>>, right_edge |-> <<>>]
       ELSE IF l1.exc # "none" \/ l2.exc # "none" \/ r1.exc # "none" \/ r2.exc # "none"
       THEN raised
       ELSE [exc |-> "none",
             left_edge |-> <<l2.val, l1.val>>,
             right_edge |-> <<r1.val, r2.val>>]

get_open_edges(nut_1, index_1, nut_2, index_2) ==
    LET val_1 == Nut_getitem(nut_1, index_1)
        val_2 == Nut_getitem(nut_2, index_2)
        l1 == Nut_getitem(nut_2, index_2 + 1)
        l2 == Nut_getitem(nut_1, index_1 - 1)
        r1 == Nut_getitem(nut_1, index_1 + 1)
        r2 == Nut_getitem(nut_2, index_2 - 1)
        raised == [exc |-> "IndexError", left_edge |-> <<>>, right_edge |-> <<>>]
    IN IF val_1.exc # "none" \/ val_2.exc # "none" THEN raised
       ELSE IF val_1.val # val_2.val
       THEN [exc |-> "ValueError", left_edge |-> <<>>, right_edge |-> <<>>]
       ELSE IF l1.exc # "none" \/ l2.exc # "none" \/ r1.exc # "none" \/ r2.exc # "none"
       THEN raised
       ELSE [exc |-> "none",
             left_edge |-> <<l1.val, l2.val>>,
             right_edge |-> <<r1.val, r2.val>>]

----------------------------------------------------------------------------
(* try_center *)

\* The tuple try_center builds for one candidate second nut n (its edges
\* are those of get_open_edges(center_nut, 0, n, 0), which returned).
CenterPair(center_nut, n, all_nuts, edges) ==
    LET available_nuts == sorted(SetOf(all_nuts) \ {center_nut, n})
    IN [center |-> center_nut,
        second |-> n,
        left_options |->
            SelectSeq(available_nuts, LAMBDA m : edges.left_edge \in m.edges_set),
        right_options |->
            SelectSeq(available_nuts, LAMBDA m : edges.right_edge \in m.edges_set)]

\* OverallPossible with `or` for `and`.
OverallPossible_either(pair) == pair.left_options # <<>> \/ pair.right_options # <<>>

\* overall_possible = left_possible and right_possible
OverallPossible(pair) == pair.left_options # <<>> /\ pair.right_options # <<>>

\* The loop `for n in all_nuts` of try_center from position i on, with the
\* possible_pairs gathered so far; a raising get_open_edges ends the call.
RECURSIVE TryCenterLoop(_, _, _, _)
TryCenterLoop(center_nut, all_nuts, i, possible_pairs) ==
    IF i > Len(all_nuts) THEN [exc |-> "none", pairs |-> possible_pairs]
    ELSE IF all_nuts[i] = center_nut
    THEN TryCenterLoop(center_nut, all_nuts, i + 1, possible_pairs)
    ELSE LET n == all_nuts[i]
             edges == get_open_edges(center_nut, 0, n, 0)
             pair == CenterPair(center_nut, n, all_nuts, edges)
         IN IF edges.exc # "none" THEN [exc |-> edges.exc, pairs |-> <<>>]
            ELSE TryCenterLoop(center_nut, all_nuts, i + 1,
                               IF OverallPossible(pair)
                               THEN Append(possible_pairs, pair)
                               ELSE possible_pairs)

try_center(center_nut, all_nuts) == TryCenterLoop(center_nut, all_nuts, 1, <<>>)

----------------------------------------------------------------------------
(* trace_path *)

\* FirstWithEdge that takes the first nut of the list whatever its edges.
FirstWithEdge_any(available_nuts, edge) == IF available_nuts = <<>> THEN 0 ELSE 1

\* `for right_nut in available_nuts: if right_edge in right_nut.edges_set`:
\* the position of the first nut of the list that has the edge, 0 if none has.
FirstWithEdge(available_nuts, edge) ==
    IF \E i \in 1..Len(available_nuts) : edge \in available_nuts[i].edges_set
    THEN CHOOSE i \in 1..Len(available_nuts) :
            /\ edge \in available_nuts[i].edges_set
            /\ \A j \in 1..(i - 1) : edge \notin available_nuts[j].edges_set
    ELSE 0

\* NewAvailable that leaves the placed nut in the pool.
NewAvailable_keeps(available_nuts, right_nut) == sorted(SetOf(available_nuts))

\* new_available_nuts = sorted(set(available_nuts) - {right_nut})
NewAvailable(available_nuts, right_nut) == sorted(SetOf(available_nuts) \ {right_nut})

\* PushStack that puts the placed nut in front of the path.
PushStack_front(stack, right_nut) == <<right_nut>> \o stack

\* stack = stack + [right_nut]
PushStack(stack, right_nut) == stack \o <<right_nut>>

\* NextCenterIndex that does not advance.
NextCenterIndex_stuck(center_index) == center_index

\* center_index + 1, the index handed to the recursive call
NextCenterIndex(center_index) == center_index + 1

\* trace_path that answers (False, stack) where the lookup of the centre's
\* value in the second nut fails.
trace_path_swallows_error(f) ==
    IF f.available_nuts = <<>>
    THEN [kind |-> "return", found |-> TRUE, sequence |-> f.stack]
    ELSE
    LET center_value == Nut_getitem(f.center_nut, f.center_index)
        second_index == TupleIndexOf(f.second_nut.numbers, center_value.val)
        edges == get_open_edges(f.center_nut, f.center_index,
                                f.second_nut, second_index.val)
        k == FirstWithEdge(f.available_nuts, edges.right_edge)
        right_nut == f.available_nuts[k]
    IN IF center_value.exc # "none" THEN [kind |-> "raise", exc |-> center_value.exc]
       ELSE IF second_index.exc # "none"
       THEN [kind |-> "return", found |-> FALSE, sequence |-> f.stack]
       ELSE IF edges.exc # "none" THEN [kind |-> "raise", exc |-> edges.exc]
       ELSE IF k # 0
       THEN [kind |-> "recurse",
             frame |-> [center_nut |-> f.center_nut,
                        second_nut |-> right_nut,
                        center_index |-> f.center_index + 1,
                        available_nuts |-> sorted(SetOf(f.available_nuts) \ {right_nut}),
                        stack |-> f.stack \o <<right_nut>>]]
       ELSE [kind |-> "return", found |-> FALSE, sequence |-> f.stack]

\* One invocation of trace_path on the arguments f: it returns
\* (found, sequence), raises, or makes the recursive call whose result it
\* returns unchanged.
trace_path(f) ==
    IF f.available_nuts = <<>>
    THEN [kind |-> "return", found |-> TRUE, sequence |-> f.stack]
    ELSE
    LET center_value == Nut_getitem(f.center_nut, f.center_index)
        second_index == TupleIndexOf(f.second_nut.numbers, center_value.val)
        edges == get_open_edges(f.center_nut, f.center_index,
                                f.second_nut, second_index.val)
        k == FirstWithEdge(f.available_nuts, edges.right_edge)
        right_nut == f.available_nuts[k]
    IN IF center_value.exc # "none" THEN [kind |-> "raise", exc |-> center_value.exc]
       ELSE IF second_index.exc # "none" THEN [kind |-> "raise", exc |-> second_index.exc]
       ELSE IF edges.exc # "none" THEN [kind |-> "raise", exc |-> edges.exc]
       ELSE IF k # 0
       THEN [kind |-> "recurse",
             frame |-> [center_nut |-> f.center_nut,
                        second_nut |-> right_nut,
                        center_index |-> NextCenterIndex(f.center_index),
                        available_nuts |-> NewAvailable(f.available_nuts, right_nut),
                        stack |-> PushStack(f.stack, right_nut)]]
       ELSE [kind |-> "return", found |-> FALSE, sequence |-> f.stack]

----------------------------------------------------------------------------
(* The datasets *)

\* main's seven nuts
Canonical ==
    << Nut(<<1, 2, 3, 4, 5, 6>>, "a"),
       Nut(<<1, 2, 5, 6, 3, 4>>, "b"),
       Nut(<<1, 3, 5, 2, 4, 6>>, "c"),
       Nut(<<1, 3, 5, 4, 2, 6>>, "d"),
       Nut(<<1, 4, 2, 3, 5, 6>>, "e"),
       Nut(<<1, 5, 3, 2, 6, 4>>, "f"),
       Nut(<<1, 6, 5, 4, 3, 2>>, "g") >>

\* numbers with the numbers at (1-based) positions x and y exchanged
Swapped(numbers, x, y) ==
    [i \in 1..Len(numbers) |->
        IF i = x THEN numbers[y] ELSE IF i = y THEN numbers[x] ELSE numbers[i]]

\* numbers with the number at (1-based) position x replaced by v
Replaced(numbers, x, v) ==
    [i \in 1..Len(numbers) |-> IF i = x THEN v ELSE numbers[i]]

\* a number that no nut of main's dataset carries
Foreign == Len(Canonical[1].numbers) + 1

\* The driver's inputs: main's dataset, every seven-nut puzzle that
\* differs from it by two numbers of one nut changing places, and every one
\* that differs from it by one number of one nut being a foreign number.
Datasets ==
    {Canonical} \cup
    { [Canonical EXCEPT ![p] = Nut(Swapped(Canonical[p].numbers, x, y), Canonical[p].name)] :
        p \in 1..Len(Canonical),
        x \in 1..Len(Canonical[1].numbers), y \in 1..Len(Canonical[1].numbers) } \cup
    { [Canonical EXCEPT ![p] = Nut(Replaced(Canonical[p].numbers, x, Foreign), Canonical[p].name)] :
        p \in 1..Len(Canonical), x \in 1..Len(Canonical[1].numbers) }

NoFrame == [center_nut |-> Canonical[1], second_nut |-> Canonical[1], center_index |-> 0,
            available_nuts |-> <<>>, stack |-> <<>>]
NoRet == [found |-> FALSE, sequence |-> <<>>]
NoCall == [fn |-> "none"]

----------------------------------------------------------------------------
(* main, print_full_solutions, print_partial_solutions *)

Init ==
    /\ nuts_list \in Datasets
    /\ partial \in BOOLEAN
    /\ pc = "loop"
    /\ cn_pos = 0
    /\ sn_rest = <<>>
    /\ sn = Canonical[1]
    /\ frame = NoFrame
    /\ ret = NoRet
    /\ solutions = <<>>
    /\ possible_starting_pairs = <<>>
    /\ tc_ret = <<>>
    /\ exc = "none"
    /\ call = NoCall
    /\ result = NoCall

\* sorted(set(nuts_list) - {cn}), the seconds tried with the centre cn
Seconds(nuts, cn) == sorted(SetOf(nuts) \ {cn})

\* starting_stack = [cn, sn]
StartingStack(cn, second) == <<cn, second>>

\* available = sorted(set(nuts_list) - {cn, sn})
Available(nuts, cn, second) == sorted(SetOf(nuts) \ {cn, second})

\* print_full_solutions: `for cn in nuts_list` takes its next nut and builds
\* the sorted list of seconds of the inner loop.
NextCenter ==
    /\ pc = "loop" /\ ~partial
    /\ sn_rest = <<>>
    /\ cn_pos < Len(nuts_list)
    /\ cn_pos' = cn_pos + 1
    /\ sn_rest' = Seconds(nuts_list, nuts_list[cn_pos + 1])
    /\ UNCHANGED <<nuts_list, partial, pc, sn, frame, ret, solutions,
                   possible_starting_pairs, tc_ret, exc, call, result>>

\* print_full_solutions: the inner loop takes its next sn and calls
\* trace_path(cn, sn, 0, available, stack=[cn, sn]).
StartAttempt ==
    /\ pc = "loop" /\ ~partial
    /\ sn_rest # <<>>
    /\ LET cn == nuts_list[cn_pos]
           second == Head(sn_rest)
       IN /\ sn' = second
          /\ frame' = [center_nut |-> cn,
                       second_nut |-> second,
                       center_index |-> 0,
                       available_nuts |-> Available(nuts_list, cn, second),
                       stack |-> StartingStack(cn, second)]
    /\ sn_rest' = Tail(sn_rest)
    /\ pc' = "trace"
    /\ UNCHANGED <<nuts_list, partial, cn_pos, ret, solutions,
                   possible_starting_pairs, tc_ret, exc, call, result>>

\* One invocation of trace_path.
TracePath ==
    /\ pc = "trace"
    /\ LET r == trace_path(frame)
       IN CASE r.kind = "recurse" ->
                  /\ frame' = r.frame
                  /\ UNCHANGED <<pc, ret, exc>>
            [] r.kind = "return" ->
                  /\ ret' = [found |-> r.found, sequence |-> r.sequence]
                  /\ pc' = "returned"
                  /\ UNCHANGED <<frame, exc>>
            [] r.kind = "raise" ->
                  /\ exc' = r.exc
                  /\ pc' = "raised"
                  /\ UNCHANGED <<frame, ret>>
    /\ UNCHANGED <<nuts_list, partial, cn_pos, sn_rest, sn, solutions,
                   possible_starting_pairs, tc_ret, call, result>>

\* print_full_solutions: `if found: solutions.append(sequence)`.
Collect ==
    /\ pc = "returned"
    /\ solutions' = IF ret.found THEN Append(solutions, ret.sequence) ELSE solutions
    /\ pc' = "loop"
    /\ UNCHANGED <<nuts_list, partial, cn_pos, sn_rest, sn, frame, ret,
                   possible_starting_pairs, tc_ret, exc, call, result>>

\* print_full_solutions: both loops are over; the solutions are printed.
PrintFull ==
    /\ pc = "loop" /\ ~partial
    /\ sn_rest = <<>>
    /\ cn_pos = Len(nuts_list)
    /\ pc' = "done"
    /\ UNCHANGED <<nuts_list, partial, cn_pos, sn_rest, sn, frame, ret, solutions,
                   possible_starting_pairs, tc_ret, exc, call, result>>

\* print_partial_solutions: `for cn in nuts_list:
\* possible_starting_pairs.extend(try_center(cn, nuts_list))`.
TryCenter ==
    /\ pc = "loop" /\ partial
    /\ cn_pos < Len(nuts_list)
    /\ LET r == try_center(nuts_list[cn_pos + 1], nuts_list)
       IN IF r.exc = "none"
          THEN /\ tc_ret' = r.pairs
               /\ possible_starting_pairs' = possible_starting_pairs \o r.pairs
               /\ cn_pos' = cn_pos + 1
               /\ UNCHANGED <<pc, exc>>
          ELSE /\ exc' = r.exc
               /\ pc' = "raised"
               /\ UNCHANGED <<tc_ret, possible_starting_pairs, cn_pos>>
    /\ UNCHANGED <<nuts_list, partial, sn_rest, sn, frame, ret, solutions, call, result>>

\* print_partial_solutions: the loop is over; the pairs are printed.
PrintPartial ==
    /\ pc = "loop" /\ partial
    /\ cn_pos = Len(nuts_list)
    /\ pc' = "done"
    /\ UNCHANGED <<nuts_list, partial, cn_pos, sn_rest, sn, frame, ret, solutions,
                   possible_starting_pairs, tc_ret, exc, call, result>>

Next ==
    \/ NextCenter
    \/ StartAttempt
    \/ TracePath
    \/ Collect
    \/ PrintFull
    \/ TryCenter
    \/ PrintPartial

Spec == Init /\ [][Next]_vars

----------------------------------------------------------------------------
(* The functions called on their own: one call, from the state "fn" *)

\* The number sequences a Nut is constructed from.
TestNumbers ==
    {Canonical[p].numbers : p \in 1..Len(Canonical)}
        \cup UNION {[1..n -> 1..MaxVal] : n \in 1..MaxLen}

\* The nuts that are indexed and aligned: main's, and three short ones (one
\* with a repeated number).
TestNuts ==
    SetOf(Canonical) \cup {Nut(<<1, 2>>, "h"), Nut(<<2, 1, 1>>, "i"), Nut(<<3>>, "j")}

Indices == (-MaxIdx)..MaxIdx

InitFn ==
    /\ nuts_list = Canonical
    /\ partial = FALSE
    /\ pc = "fn"
    /\ cn_pos = 0
    /\ sn_rest = <<>>
    /\ sn = Canonical[1]
    /\ frame = NoFrame
    /\ ret = NoRet
    /\ solutions = <<>>
    /\ possible_starting_pairs = <<>>
    /\ tc_ret = <<>>
    /\ exc = "none"
    /\ call = NoCall
    /\ result = NoCall

\* Nut(numbers, name)
CallNut ==
    /\ pc = "fn"
    /\ pc' = "called"
    /\ \E numbers \in TestNumbers :
          /\ call' = [fn |-> "Nut", numbers |-> numbers, name |-> "a"]
          /\ result' = Nut(numbers, "a")
    /\ UNCHANGED fn_unchanged

\* nut[item]
CallGetItem ==
    /\ pc = "fn"
    /\ pc' = "called"
    /\ \E numbers \in TestNumbers, item \in Indices :
          /\ call' = [fn |-> "getitem", nut |-> Nut(numbers, "a"), item |-> item]
          /\ result' = Nut_getitem(Nut(numbers, "a"), item)
    /\ UNCHANGED fn_unchanged

\* get_open_edges(nut_1, index_1, nut_2, index_2)
CallGetOpenEdges ==
    /\ pc = "fn"
    /\ pc' = "called"
    /\ \E nut_1 \in TestNuts, nut_2 \in TestNuts, index_1 \in Indices, index_2 \in Indices :
          /\ call' = [fn |-> "get_open_edges", nut_1 |-> nut_1, index_1 |-> index_1,
                      nut_2 |-> nut_2, index_2 |-> index_2]
          /\ result' = get_open_edges(nut_1, index_1, nut_2, index_2)
    /\ UNCHANGED fn_unchanged

NextFn ==
    \/ CallNut
    \/ CallGetItem
    \/ CallGetOpenEdges

SpecFn == InitFn /\ [][NextFn]_vars

----------------------------------------------------------------------------
(* What the properties are stated with *)

\* value_at of the specification: the number at index i modulo the length,
\* the modulo being the mathematical one (never negative).
ValueAt(nut, i) == nut.numbers[(i % Len(nut.numbers)) + 1]

NamesOf(nuts) == [i \in 1..Len(nuts) |-> nuts[i].name]

NoRepeat(seq) == \A i, j \in 1..Len(seq) : i # j => seq[i] # seq[j]

LabelOrdered(nuts) ==
    \A i, j \in 1..Len(nuts) : i < j => NameRank(nuts[i].name) < NameRank(nuts[j].name)

\* The centre and the second nut of the attempt under way.
AttemptCenter == nuts_list[cn_pos]
AttemptSecond == sn

\* For a path [c, s1, ..., sm] and i in 0..m-1: the right open edge of c at
\* index i aligned with s(i+1) is an edge of the next ring nut, the one
\* after sm being s1.
ClosedAt(path, i) ==
    LET c == path[1]
        m == Len(path) - 1
        s == path[i + 2]
        next == path[((i + 1) % m) + 2]
        second_index == TupleIndexOf(s.numbers, ValueAt(c, i))
        edges == get_open_edges(c, i, s, second_index.val)
    IN /\ second_index.exc = "none"
       /\ edges.exc = "none"
       /\ edges.right_edge \in next.edges_set

----------------------------------------------------------------------------
(* The full search *)

\* C1: every path trace_path returns as found is a closed ring: at every
\* index i the right open edge of the centre and ring nut i+1 is an edge of
\* the next ring nut, the wraparound from the last ring nut to the first
\* included.
C1_SolvedRingIsClosed ==
    (pc = "returned" /\ ret.found) =>
        \A i \in 0..(Len(ret.sequence) - 2) : ClosedAt(ret.sequence, i)

\* C2: throughout an attempt the stack and the available nuts are disjoint,
\* without repeats, and together are the dataset; a path returned as found
\* is a permutation of the dataset.
C2_StackAndPoolPartitionDataset ==
    /\ pc \in {"trace", "returned"} =>
          /\ SetOf(frame.stack) \cap SetOf(frame.available_nuts) = {}
          /\ SetOf(frame.stack) \cup SetOf(frame.available_nuts) = SetOf(nuts_list)
          /\ NoRepeat(frame.stack)
          /\ NoRepeat(frame.available_nuts)
    /\ (pc = "returned" /\ ret.found) =>
          /\ SetOf(ret.sequence) = SetOf(nuts_list)
          /\ Len(ret.sequence) = Len(nuts_list)
          /\ NoRepeat(ret.sequence)

\* A call of trace_path three placements into an attempt, with nuts left.
C2_Witness ==
    /\ pc = "trace"
    /\ Len(frame.stack) = 5
    /\ Len(frame.available_nuts) = 2

\* C3: on main's dataset the full search ends with at least one solution,
\* and the attempt with centre d and second f returns found with the path
\* [d, f, a, c, g, b, e].
C3_CanonicalSolution ==
    (nuts_list = Canonical /\ ~partial) =>
        /\ pc = "done" => solutions # <<>>
        /\ (pc = "returned" /\ AttemptCenter.name = "d" /\ AttemptSecond.name = "f") =>
              /\ ret.found
              /\ NamesOf(ret.sequence) = <<"d", "f", "a", "c", "g", "b", "e">>

\* The full search of main's dataset is over and has stored the path.
C3_Witness ==
    /\ nuts_list = Canonical
    /\ pc = "done"
    /\ ~partial
    /\ \E i \in 1..Len(solutions) :
          NamesOf(solutions[i]) = <<"d", "f", "a", "c", "g", "b", "e">>

----------------------------------------------------------------------------
(* get_open_edges, Nut.__getitem__, Nut.__init__ *)

\* C5: whenever the two nuts hold equal numbers at the two indices,
\* get_open_edges returns left_edge = (value_at(nut_2, index_2 + 1),
\* value_at(nut_1, index_1 - 1)) and right_edge = (value_at(nut_1, index_1 + 1),
\* value_at(nut_2, index_2 - 1)); on main's nuts (a,0,b,0) gives
\* ((2,6),(2,4)), (a,0,c,0) gives ((3,6),(2,6)), (a,1,c,3) gives ((4,1),(3,5)).
C5_OpenEdgesValues ==
    call.fn = "get_open_edges" =>
        /\ ValueAt(call.nut_1, call.index_1) = ValueAt(call.nut_2, call.index_2) =>
              /\ result.exc = "none"
              /\ result.left_edge = <<ValueAt(call.nut_2, call.index_2 + 1),
                                      ValueAt(call.nut_1, call.index_1 - 1)>>
              /\ result.right_edge = <<ValueAt(call.nut_1, call.index_1 + 1),
                                       ValueAt(call.nut_2, call.index_2 - 1)>>
        /\ (call.nut_1 = Canonical[1] /\ call.index_1 = 0
                /\ call.nut_2 = Canonical[2] /\ call.index_2 = 0) =>
              (result.left_edge = <<2, 6>> /\ result.right_edge = <<2, 4>>)
        /\ (call.nut_1 = Canonical[1] /\ call.index_1 = 0
                /\ call.nut_2 = Canonical[3] /\ call.index_2 = 0) =>
              (result.left_edge = <<3, 6>> /\ result.right_edge = <<2, 6>>)
        /\ (call.nut_1 = Canonical[1] /\ call.index_1 = 1
                /\ call.nut_2 = Canonical[3] /\ call.index_2 = 3) =>
              (result.left_edge = <<4, 1>> /\ result.right_edge = <<3, 5>>)

\* C6: get_open_edges raises the mismatch error (ValueError) when the
\* numbers at the two indices differ, and returns, raising nothing, when
\* they are equal.
C6_MismatchErrorOnly ==
    call.fn = "get_open_edges" =>
        IF ValueAt(call.nut_1, call.index_1) = ValueAt(call.nut_2, call.index_2)
        THEN result.exc = "none"
        ELSE result.exc = "ValueError"

\* C7: for every index, nut[item] returns the number at item modulo the
\* length and raises nothing.
C7_GetItemIsModular ==
    call.fn = "getitem" =>
        /\ result.exc = "none"
        /\ result.val = ValueAt(call.nut, call.item)

\* C8: if get_open_edges(nut_1, index_1, nut_2, index_2) returns (L, R) then
\* get_open_edges(nut_2, index_2, nut_1, index_1) returns (R, L).
C8_SwapExchangesEdges ==
    (call.fn = "get_open_edges" /\ result.exc = "none") =>
        LET swapped == get_open_edges(call.nut_2, call.index_2, call.nut_1, call.index_1)
        IN /\ swapped.exc = "none"
           /\ swapped.left_edge = result.right_edge
           /\ swapped.right_edge = result.left_edge

\* A call on two different nuts that returned two different edges.
C8_Witness ==
    /\ call.fn = "get_open_edges"
    /\ result.exc = "none"
    /\ call.nut_1 # call.nut_2
    /\ result.left_edge # result.right_edge

\* C9: a nut made from k numbers has k edges: edge i (i < k) is
\* (numbers[i], numbers[i+1]), the last is (numbers[k-1], numbers[0]);
\* edges_set holds exactly the edges of edges_list; from [1,2,3,4,5,6] the
\* edges are (1,2),(2,3),(3,4),(4,5),(5,6),(6,1).
C9_EdgesOfANut ==
    call.fn = "Nut" =>
        LET k == Len(call.numbers)
        IN /\ Len(result.edges_list) = k
           /\ \A i \in 1..(k - 1) :
                 result.edges_list[i] = <<call.numbers[i], call.numbers[i + 1]>>
           /\ result.edges_list[k] = <<call.numbers[k], call.numbers[1]>>
           /\ result.edges_set = {result.edges_list[i] : i \in 1..k}
           /\ call.numbers = <<1, 2, 3, 4, 5, 6>> =>
                 result.edges_list =
                     <<<<1, 2>>, <<2, 3>>, <<3, 4>>, <<4, 5>>, <<5, 6>>, <<6, 1>>>>

\* A nut was made from three numbers, two of them equal.
C9_Witness ==
    /\ call.fn = "Nut"
    /\ call.numbers = <<2, 1, 1>>
    /\ result.edges_list = <<<<2, 1>>, <<1, 1>>, <<1, 2>>>>

----------------------------------------------------------------------------
(* try_center *)

\* The nuts other than the centre and n, and among them those with the left
\* and with the right open edge of the centre aligned with n on index 0.
TcRest(n) == SetOf(nuts_list) \ {AttemptCenter, n}
TcWithLeft(n) ==
    {m \in TcRest(n) : get_open_edges(AttemptCenter, 0, n, 0).left_edge \in m.edges_set}
TcWithRight(n) ==
    {m \in TcRest(n) : get_open_edges(AttemptCenter, 0, n, 0).right_edge \in m.edges_set}

TcSummary(pairs) ==
    [i \in 1..Len(pairs) |->
        <<pairs[i].center.name, pairs[i].second.name,
          NamesOf(pairs[i].left_options), NamesOf(pairs[i].right_options)>>]

\* C10: try_center returns a tuple for a nut n other than the centre exactly
\* when some other nut has the left open edge and some other nut has the
\* right open edge; the tuple's options are exactly those nuts, in label
\* order; for main's dataset and centre a the result is
\* [(a, b, [d, f], [c]), (a, e, [c], [d, f]), (a, f, [b, e], [c])].
C10_TryCenterResult ==
    (partial /\ cn_pos > 0) =>
        /\ \A n \in SetOf(nuts_list) \ {AttemptCenter} :
              (\E i \in 1..Len(tc_ret) : tc_ret[i].second = n)
                  <=> (TcWithLeft(n) # {} /\ TcWithRight(n) # {})
        /\ \A i \in 1..Len(tc_ret) :
              /\ tc_ret[i].center = AttemptCenter
              /\ tc_ret[i].second \in SetOf(nuts_list) \ {AttemptCenter}
              /\ SetOf(tc_ret[i].left_options) = TcWithLeft(tc_ret[i].second)
              /\ SetOf(tc_ret[i].right_options) = TcWithRight(tc_ret[i].second)
              /\ LabelOrdered(tc_ret[i].left_options)
              /\ LabelOrdered(tc_ret[i].right_options)
        /\ \A i, j \in 1..Len(tc_ret) : i # j => tc_ret[i].second # tc_ret[j].second
        /\ (nuts_list = Canonical /\ cn_pos = 1) =>
              TcSummary(tc_ret) = << <<"a", "b", <<"d", "f">>, <<"c">> >>,
                                     <<"a", "e", <<"c">>, <<"d", "f">> >>,
                                     <<"a", "f", <<"b", "e">>, <<"c">> >> >>

\* try_center has returned for main's dataset and centre a.
C10_Witness ==
    /\ partial
    /\ nuts_list = Canonical
    /\ cn_pos = 1
    /\ Len(tc_ret) = 3

----------------------------------------------------------------------------
(* C11 *)

\* the values a nut carries
ValuesOf(nut) == {nut.numbers[i] : i \in 1..Len(nut.numbers)}

\* the centre's pivot value of the invocation f does not occur on its
\* second nut
PivotAbsent(f) == ValueAt(f.center_nut, f.center_index) \notin ValuesOf(f.second_nut)

\* C11: an invocation of trace_path with a non-empty pool whose second nut
\* does not carry the centre's pivot value ends the attempt in a hard error:
\* nothing is returned, no solution is recorded, and the driver takes no
\* further step (no later starting pair is tried).
C11_AbsentPivotIsHardError ==
    [][/\ (pc = "trace" /\ frame.available_nuts # <<>> /\ PivotAbsent(frame))
            => /\ pc' = "raised"
               /\ exc' # "none"
               /\ ret' = ret
               /\ solutions' = solutions
       /\ (pc = "raised") => UNCHANGED vars]_vars

C11_Witness ==
    /\ pc = "raised"
    /\ ~partial
    /\ exc = "ValueError"
    /\ frame.available_nuts # <<>>
    /\ PivotAbsent(frame)
    /\ cn_pos < Len(nuts_list)

----------------------------------------------------------------------------
(* C12 *)

\* C12 (the Returns section of trace_path's docstring): trace_path returns
\* True with the solution sequence when a solution was found, and False
\* with the empty list otherwise.
C12_NotFoundReturnsEmptyList ==
    (pc = "returned") =>
        /\ ret.found => (ret.sequence # <<>> /\ ret.sequence = frame.stack)
        /\ ~ret.found => ret.sequence = <<>>

----------------------------------------------------------------------------
(* C13 *)

\* the numbers of every nut of the dataset are distinct within the nut
DistinctWithin(nuts) == \A i \in 1..Len(nuts) : NoRepeat(nuts[i].numbers)

\* the right open edge of the centre c at index i aligned with the nut s is
\* defined and is an edge of the nut n
RightEdgeIn(c, i, s, n) ==
    LET second_index == TupleIndexOf(s.numbers, ValueAt(c, i))
        edges == get_open_edges(c, i, s, second_index.val)
    IN /\ second_index.exc = "none"
       /\ edges.exc = "none"
       /\ edges.right_edge \in n.edges_set

\* Some ordering of the nuts of pool continues the nut s at index i of the
\* centre c to the end: each next nut carries the right open edge of the
\* step before it, the index advancing by one, until pool is used up.
RECURSIVE ChainExists(_, _, _, _)
ChainExists(c, i, s, pool) ==
    \/ pool = {}
    \/ \E n \in pool : RightEdgeIn(c, i, s, n) /\ ChainExists(c, i + 1, n, pool \ {n})

\* C13: an attempt returns not found only when its branch is dead: whenever
\* some ordering of the attempt's pool exists in which every nut carries the
\* right open edge of the step before it, the attempt returns found (nuts
\* with distinct numbers).
C13_FailedOnlyWhenBranchDead ==
    ( /\ pc = "returned"
      /\ DistinctWithin(nuts_list)
      /\ ChainExists(AttemptCenter, 0, AttemptSecond,
                     SetOf(nuts_list) \ {AttemptCenter, AttemptSecond}) )
    => ret.found

----------------------------------------------------------------------------
(* C14 *)

\* every nut of the dataset carries the same number at index 0
SameFirstValue(nuts) == \A i, j \in 1..Len(nuts) : ValueAt(nuts[i], 0) = ValueAt(nuts[j], 0)

\* try_center(center_nut, all_nuts) returns a pair whose second nut is second
InFilter(center_nut, second, all_nuts) ==
    LET r == try_center(center_nut, all_nuts)
    IN /\ r.exc = "none"
       /\ \E i \in 1..Len(r.pairs) : r.pairs[i].second = second

\* C14: on a dataset whose nuts all carry the same number at index 0, every
\* starting pair whose attempt returns found is among the pairs try_center
\* returns for its centre.
C14_FilterIsNecessary ==
    (pc = "returned" /\ ret.found /\ SameFirstValue(nuts_list)) =>
        InFilter(AttemptCenter, AttemptSecond, nuts_list)

\* The same for the attempts whose returned ring is closed at every index.
C14_ClosedRingPassesFilter ==
    ( /\ pc = "returned" /\ ret.found /\ SameFirstValue(nuts_list)
      /\ \A i \in 0..(Len(ret.sequence) - 2) : ClosedAt(ret.sequence, i) ) =>
        InFilter(AttemptCenter, AttemptSecond, nuts_list)

----------------------------------------------------------------------------
(* trace_path called on its own *)

\* SpecTrace calls trace_path with every starting index in 0..MaxStartIndex.
MaxStartIndex == 1

\* every list that holds each nut of S once: the orders in which a caller
\* can hand the pool to trace_path
RECURSIVE Orderings(_)
Orderings(S) ==
    IF S = {} THEN {<<>>}
    ELSE UNION { { <<x>> \o o : o \in Orderings(S \ {x}) } : x \in S }

\* The puzzles of the calls: main's dataset, and main's dataset with one
\* number of the nut b being a foreign number.
TraceDatasets ==
    {Canonical} \cup
    { [Canonical EXCEPT ![2] = Nut(Replaced(Canonical[2].numbers, x, Foreign), Canonical[2].name)] :
        x \in 1..Len(Canonical[2].numbers) }

\* trace_path(center_nut, second_nut, center_index, available_nuts,
\*            stack=[center_nut, second_nut], verbose=False)
\* called by some caller with the other nuts of a puzzle in an order of the
\* caller's choice.
CallTracePath ==
    /\ pc = "fn"
    /\ \E nuts \in TraceDatasets :
         \E c \in 1..Len(nuts), s \in 1..Len(nuts), center_index \in 0..MaxStartIndex :
           /\ c # s
           /\ \E available_nuts \in Orderings(SetOf(nuts) \ {nuts[c], nuts[s]}) :
                /\ nuts_list' = nuts
                /\ cn_pos' = c
                /\ sn' = nuts[s]
                /\ frame' = [center_nut |-> nuts[c],
                             second_nut |-> nuts[s],
                             center_index |-> center_index,
                             available_nuts |-> available_nuts,
                             stack |-> <<nuts[c], nuts[s]>>]
                /\ call' = [fn |-> "trace_path", center_index |-> center_index,
                            available_nuts |-> available_nuts]
    /\ pc' = "trace"
    /\ UNCHANGED <<partial, sn_rest, ret, solutions, possible_starting_pairs,
                   tc_ret, exc, result>>

NextTrace ==
    \/ CallTracePath
    \/ TracePath

SpecTrace == InitFn /\ [][NextTrace]_vars

----------------------------------------------------------------------------
(* C15 *)

\* C15: at every step of trace_path with a non-empty pool the nut placed
\* next is the first in label order of the nuts of the pool that carry the
\* right open edge, in whatever order the caller handed over the pool.
C15_PlacedIsLabelLeast ==
    [][(pc = "trace" /\ pc' = "trace") =>
          \A n \in SetOf(frame.available_nuts) :
              RightEdgeIn(frame.center_nut, frame.center_index, frame.second_nut, n)
                  => ~Nut_lt(n, frame'.second_nut)]_vars

----------------------------------------------------------------------------
(* C16 *)

\* no nut of the pool of the invocation f carries its right open edge
NoContinuation(f) ==
    \A n \in SetOf(f.available_nuts) :
        ~RightEdgeIn(f.center_nut, f.center_index, f.second_nut, n)

\* C16: an attempt returns not found exactly when it has reached a step
\* whose pool is non-empty and holds no nut with the right open edge; it
\* then returns the path built so far: the starting pair followed by the
\* nuts placed, in the order of their placement.
C16_FailedIsDeadEndWithPath ==
    /\ [](pc = "returned" =>
            /\ ~ret.found <=> (frame.available_nuts # <<>> /\ NoContinuation(frame))
            /\ ~ret.found => ret.sequence = frame.stack)
    /\ [](pc \in {"trace", "returned"} =>
            /\ Len(frame.stack) >= 2
            /\ frame.stack[1] = AttemptCenter
            /\ frame.stack[2] = AttemptSecond
            /\ frame.stack[Len(frame.stack)] = frame.second_nut)
    /\ [][(pc = "trace" /\ frame.available_nuts # <<>> /\ ~PivotAbsent(frame)) =>
            IF NoContinuation(frame)
            THEN pc' = "returned" /\ ~ret'.found /\ ret'.sequence = frame.stack
            ELSE /\ pc' = "trace"
                 /\ frame'.stack = frame.stack \o <<frame'.second_nut>>
                 /\ frame'.second_nut \in SetOf(frame.available_nuts)]_vars

\* An attempt has returned not found with three nuts placed after the
\* starting pair and nuts left in the pool.
C16_Witness ==
    /\ pc = "returned"
    /\ ~ret.found
    /\ Len(ret.sequence) = 5
    /\ frame.available_nuts # <<>>
    /\ NoContinuation(frame)

----------------------------------------------------------------------------
(* C17 *)

\* the number of nuts placed after the starting pair
Placements(f) == Len(f.stack) - Len(StartingStack(AttemptCenter, AttemptSecond))

\* the number of nuts of the pool the attempt started with
InitialPool == Len(Available(nuts_list, AttemptCenter, AttemptSecond))

\* C17: every attempt ends (found, not found or hard error) after at most
\* as many placements as its initial pool has nuts, the pool losing exactly
\* one nut at each recursive step; on main's dataset no attempt places more
\* than 5 nuts after the starting pair.  Stated with the pool as the
\* variant: an invocation under way always has its step, every step either
\* ends the attempt or makes one placement, and the placements never
\* outnumber the initial pool.
C17_AttemptTerminates ==
    /\ [](pc = "trace" => trace_path(frame).kind \in {"recurse", "return", "raise"})
    /\ [][pc = "trace" => pc' \in {"trace", "returned", "raised"}]_vars
    /\ [](pc \in {"trace", "returned", "raised"} /\ ~partial =>
            /\ Placements(frame) <= InitialPool
            /\ Placements(frame) + Len(frame.available_nuts) = InitialPool
            /\ nuts_list = Canonical => Placements(frame) <= 5)
    /\ [][(pc = "trace" /\ pc' = "trace") =>
            /\ Len(frame'.available_nuts) = Len(frame.available_nuts) - 1
            /\ Placements(frame') = Placements(frame) + 1]_vars

\* An attempt on main's dataset has ended with 5 nuts placed.
C17_Witness ==
    /\ nuts_list = Canonical
    /\ pc = "returned"
    /\ Placements(frame) = 5

----------------------------------------------------------------------------
(* C18 *)

\* the left open edge the invocation f computes
LeftEdgeOf(f) ==
    get_open_edges(f.center_nut, f.center_index, f.second_nut,
                   TupleIndexOf(f.second_nut.numbers, ValueAt(f.center_nut, f.center_index)).val).left_edge

\* C18: for nuts with distinct numbers, at every step of an attempt after
\* its first the left open edge computed at the step is an edge of the
\* second nut of the step before.
C18_LeftEdgeClosesOnPrevious ==
    ( /\ pc = "trace"
      /\ DistinctWithin(nuts_list)
      /\ frame.available_nuts # <<>>
      /\ Len(frame.stack) > 2 ) =>
        /\ ~PivotAbsent(frame)
        /\ LeftEdgeOf(frame) \in frame.stack[Len(frame.stack) - 1].edges_set

\* The third step of an attempt, whose previous second nut was itself placed.
C18_Witness ==
    /\ pc = "trace"
    /\ DistinctWithin(nuts_list)
    /\ frame.available_nuts # <<>>
    /\ Len(frame.stack) = 4
    /\ LeftEdgeOf(frame) \in frame.stack[3].edges_set

----------------------------------------------------------------------------
(* C19 *)

\* C19: in a call of trace_path started with a centre index >= 0 a hard
\* error arises at the first step only, and it is the failed lookup of the
\* pivot on the second nut handed over: every nut trace_path places carries
\* the centre's next pivot value, so the lookup of every later step
\* succeeds, and get_open_edges never raises its mismatch error.
C19_HardErrorOnlyAtFirstStep ==
    (call # NoCall /\ call.center_index >= 0) =>
        /\ pc = "raised" =>
              /\ frame.center_index = call.center_index
              /\ exc = "ValueError"
              /\ PivotAbsent(frame)
        /\ (pc = "trace" /\ frame.center_index > call.center_index) =>
              /\ ~PivotAbsent(frame)
              /\ frame.available_nuts # <<>> =>
                    get_open_edges(frame.center_nut, frame.center_index, frame.second_nut,
                        TupleIndexOf(frame.second_nut.numbers,
                                     ValueAt(frame.center_nut, frame.center_index)).val).exc = "none"

\* A call started at an index past 0 has raised at its first step.
C19_Witness ==
    /\ call # NoCall
    /\ pc = "raised"
    /\ call.center_index > 0
    /\ frame.center_index = call.center_index
    /\ frame.available_nuts = call.available_nuts

============================================================================
